---- MODULE Spec2Model ----
(***************************************************************************)
(* robit: the step interpreter (handleStep), the page pool kept on the     *)
(* browser object (getPage / releasePage) and main's step loop.            *)
(*                                                                         *)
(* Execution is single-threaded and cooperative: a task (main, or one      *)
(* crawl branch) runs from one await to the next without interruption, and *)
(* the tasks' continuations interleave in any order.                       *)
(***************************************************************************)
EXTENDS Integers, Sequences, FiniteSets, TLC

VARIABLES config, pages, queue, numPages, tasks, files, calls, relCount, misuses,
          session, mt

vars ==
  <<config, pages, queue, numPages, tasks, files, calls, relCount, misuses,
    session, mt>>

(* ------------------------------ bounds -------------------------------- *)

\* largest config.maxPages explored
MaxPagesBound == 2
\* most elements one crawl's match may resolve
MaxElems == 2
\* most crawl branches started in one run
MaxBranches == 3
\* largest |times| of a repeat step explored
MaxTimes == 3

(* --------------------------- program constants ------------------------ *)

\* Math.abs(step.times) || 10
DefaultIters == 10

\* the task that runs main()
Main == 1

(* ------------------------------- steps -------------------------------- *)

\* an optional config/step field: <<>> when omitted, <<v>> when given
Omitted == <<>>
Given(v) == <<v>>

LeafActions == {"click", "scrape", "screenshot", "type", "wait"}

WritingActions == {"scrape", "screenshot"}

Leaf(action, path) ==
  [action |-> action, path |-> path, times |-> Omitted, subSteps |-> <<>>,
   where |-> Omitted, for |-> Omitted, wait |-> Omitted, waitFor |-> Omitted]

\* { action: 'go', where }
GoWhere(where) == [Leaf("go", <<>>) EXCEPT !.where = Given(where)]

Go == GoWhere("back")

\* { action: 'wait', for }
Wait(for) == [Leaf("wait", <<>>) EXCEPT !.for = Given(for)]

\* { action: 'click', selector, waitFor }
ClickWaitFor(for) == [Leaf("click", <<>>) EXCEPT !.waitFor = Given(for)]

\* { action: 'click', selector, wait: { for } }
ClickWait(for) == [Leaf("click", <<>>) EXCEPT !.wait = Given(for)]

\* a click with neither wait nor waitFor
Click == Leaf("click", <<>>)

Repeat(times, subSteps) ==
  [Leaf("repeat", <<>>) EXCEPT !.times = times, !.subSteps = subSteps]

Crawl(subSteps) == [Leaf("crawl", <<>>) EXCEPT !.subSteps = subSteps]

\* output-path templates: a path is a sequence of pieces, "$i" being the token
ShotPath == <<"shot-", "$i", ".png">>
DataPath == <<"data-", "$i", ".json">>

Screenshot == Leaf("screenshot", ShotPath)
Scrape == Leaf("scrape", DataPath)

\* const replaceIndex = (str, i) => str.replace(/\$i/g, i)
replaceIndex(str, i) ==
  [n \in 1..Len(str) |-> IF str[n] = "$i" THEN ToString(i) ELSE str[n]]

Abs(n) == IF n < 0 THEN 0 - n ELSE n

\* const iters = Math.abs(step.times) || 10
Iters(times) ==
  IF times = Omitted THEN DefaultIters
  ELSE IF Abs(times[1]) = 0 THEN DefaultIters ELSE Abs(times[1])

\* handleStep(browser, page, subStep, i * iters + j)
RepeatIndexNoJ(i, iters, j) == i * iters

RepeatIndexSum(i, iters, j) == i + j

RepeatIndex(i, iters, j) == i * iters + j

\* handleStep(browser, page, subStep, results.length * i + j + 1)
CrawlIndex(rlen, i, j) == rlen * i + j + 1

\* the case labels of wait's switch (step.for), lines 55-89
WaitKinds ==
  {"function", "navigation", "networkIdle", "request", "response", "selector",
   "timeout", "xpath"}

\* page['waitFor' + method] is a function of the driver's page for the kinds
\* of the switch; for another value of step.for it is undefined
PageHasWaitFor(for) == for \in WaitKinds

\* the method name the go step builds from step.where, lines 271-284
GoMethod(where) ==
  CASE where = "back" -> "goBack"
    [] where = "forward" -> "goForward"
    [] OTHER -> "goto"

\* config.keepOpenAfter: undefined, a boolean or a number of milliseconds
KeepUndefined == [type |-> "undefined", n |-> 0]
KeepBoolean(b) == [type |-> "boolean", n |-> IF b THEN 1 ELSE 0]
KeepNumber(n) == [type |-> "number", n |-> n]

\* Number.isInteger(config.keepOpenAfter) && config.keepOpenAfter > 0
IsPositiveInteger(keep) == keep.type = "number" /\ keep.n > 0

\* !config.keepOpenAfter
IsFalsy(keep) == keep.type = "undefined" \/ keep.n = 0

\* the for of the wait a click step declares, lines 219-223: step.wait, else
\* { for: step.waitFor }, else none
ClickWaitKind(step) == IF step.wait # Omitted THEN step.wait ELSE step.waitFor

\* the driver calls a click step with a wait issues, in the order it pushes
\* their promises, lines 219-235
ClickPartsClickFirst == <<"click", "wait">>

ClickParts == <<"wait", "click">>

\* the log events of the two calls
PartEvent(part, what) ==
  CASE part = "wait" /\ what = "start" -> "waitStart"
    [] part = "wait" /\ what = "end" -> "waitEnd"
    [] part = "wait" /\ what = "fail" -> "waitFail"
    [] part = "click" /\ what = "start" -> "clickStart"
    [] part = "click" /\ what = "end" -> "clickEnd"
    [] part = "click" /\ what = "fail" -> "clickFail"

(* ------------------------------ configs ------------------------------- *)

TimesChoices == {Omitted} \cup {Given(n) : n \in (0 - 2)..MaxTimes}

StepLists ==
  {<<Repeat(t, <<Screenshot, Scrape>>)>> : t \in TimesChoices}
  \cup {<<Crawl(<<Scrape, Screenshot>>)>>,
        <<Crawl(<<Go, Scrape>>)>>,
        <<Crawl(<<Scrape>>), Crawl(<<Screenshot>>)>>,
        <<Repeat(Given(2), <<Go>>)>>}

\* a crawl inside a repeat, a crawl inside a crawl
CompositeStepLists ==
  {<<Repeat(Given(2), <<Crawl(<<Scrape>>)>>)>>,
   <<Crawl(<<Crawl(<<Scrape>>)>>)>>}

\* steps that run one after the other on main's page: leaves, go, wait and
\* repeats of them, a repeat in a repeat included
SequentialStepLists ==
  {<<Screenshot, Scrape>>,
   <<Screenshot, Wait("bogus"), Scrape>>,
   <<Wait("selector"), Scrape>>,
   <<GoWhere("back"), Screenshot>>,
   <<GoWhere("forward")>>,
   <<GoWhere("L1"), Scrape>>,
   <<ClickWaitFor("navigation"), Screenshot>>,
   <<ClickWait("selector"), Click>>,
   <<Screenshot, ClickWaitFor("bogus")>>}
  \cup {<<Repeat(Given(n), <<Repeat(Given(m), <<Screenshot>>)>>)>> :
          n \in 1..MaxTimes, m \in 1..MaxTimes}

MaxPagesChoices == {Omitted} \cup {Given(n) : n \in 1..MaxPagesBound}

KeepOpenChoices ==
  {KeepUndefined, KeepBoolean(FALSE), KeepBoolean(TRUE), KeepNumber(0),
   KeepNumber(5000), KeepNumber(0 - 1)}

Configs(stepLists) ==
  [maxPages : MaxPagesChoices, steps : stepLists, keepOpenAfter : {KeepUndefined}]

SequentialConfigs ==
  [maxPages : {Omitted}, steps : SequentialStepLists,
   keepOpenAfter : KeepOpenChoices]

(* --------------------- what the driver may return --------------------- *)

\* values of elem[attribute] as the driver serialises them: a scalar (string
\* or null) or an array; "" stands for a falsy target
Scalar(v) == [arr |-> FALSE, items |-> <<v>>]
Array(vs) == [arr |-> TRUE, items |-> vs]

Values ==
  {Scalar("L1"), Array(<<>>), Array(<<"L1">>), Array(<<"", "L2">>),
   Array(<<"L1", "L1">>)}

RECURSIVE SeqsUpTo(_, _)
SeqsUpTo(S, n) ==
  IF n = 0 THEN {<<>>}
  ELSE LET shorter == SeqsUpTo(S, n - 1)
       IN shorter \cup {Append(s, v) : s \in shorter, v \in S}

Truthy(v) == v # ""

\* links.filter(Boolean) per record, flattened by flatMap
RECURSIVE FlatLinks(_)
FlatLinks(results) ==
  IF results = <<>> THEN <<>>
  ELSE SelectSeq(Head(results).items, Truthy) \o FlatLinks(Tail(results))

MatchResults ==
  {r \in SeqsUpTo(Values, MaxElems) : Len(FlatLinks(r)) <= MaxBranches}

(* ------------------------------- match -------------------------------- *)

\* most nodes of the documents match is run on
MaxNodes == 3

Tags == {"div", "a"}

Keys == {"row", "cell", "link", "title"}

\* the proper ancestors of node n of a document, the page (0) included
RECURSIVE Ancestors(_, _)
Ancestors(doc, n) ==
  IF n = 0 THEN {} ELSE {doc[n].parent} \cup Ancestors(doc, doc[n].parent)

\* documents: nodes in document order, each under the page (parent 0) or
\* under an earlier node
Docs ==
  {d \in SeqsUpTo([tag : Tags, parent : 0..(MaxNodes - 1)], MaxNodes) \ {<<>>} :
     /\ \A n \in 1..Len(d) : d[n].parent < n
     /\ \A n \in 2..Len(d) : d[n].parent \in {n - 1} \cup Ancestors(d, n - 1)}

\* the nodes below elem; elem = 0 is the page
Within(doc, elem) == {n \in 1..Len(doc) : elem \in Ancestors(doc, n)}

RECURSIVE InOrder(_)
InOrder(S) ==
  IF S = {} THEN <<>>
  ELSE LET n == CHOOSE x \in S : \A y \in S : x <= y
       IN <<n>> \o InOrder(S \ {n})

\* elem.$$(selector), elem.$x(xpath): the nodes below elem the selector or
\* xpath (a tag name here) matches, in document order
Matches(doc, elem, tag) == InOrder({n \in Within(doc, elem) : doc[n].tag = tag})

\* node[attribute] as the driver returns it
AttrValue(n, attribute) == [attr |-> attribute, node |-> n]

\* content.matchAll(regex): the occurrences of the pattern (a tag name here)
\* in page.content(), or in the outerHTML of elem, in document order
RegexMatches(doc, elem, regex) ==
  LET content == Within(doc, elem) \cup (IF elem = 0 THEN {} ELSE {elem})
  IN InOrder({n \in content : doc[n].tag = regex})

\* a value of step.data: a string (a selector), or an object
Str(selector) ==
  [str |-> Given(selector), selector |-> Omitted, xpath |-> Omitted,
   regex |-> Omitted, attribute |-> Omitted, children |-> <<>>]

Node(selector, xpath, regex, attribute, children) ==
  [str |-> Omitted, selector |-> selector, xpath |-> xpath, regex |-> regex,
   attribute |-> attribute, children |-> children]

\* lines 118-130
Fields(value) ==
  IF value.str # Omitted
  THEN [attribute |-> "textContent", children |-> <<>>, regex |-> Omitted,
        selector |-> value.str, xpath |-> Omitted]
  ELSE [attribute |-> IF value.attribute = Omitted THEN "textContent"
                      ELSE value.attribute[1],
        children |-> value.children, regex |-> value.regex,
        selector |-> value.selector, xpath |-> value.xpath]

\* step.data of the scrape and crawl steps explored: entries <<key, value>>
LeafData ==
  {<<<<"link", Str("a")>>>>,
   <<<<"link", Str("a")>>, <<"title", Str("div")>>>>,
   <<<<"title", Node(Given("div"), Omitted, Omitted, Given("id"), <<>>)>>,
     <<"link", Node(Omitted, Given("a"), Omitted, Given("href"), <<>>)>>>>,
   <<<<"link", Node(Omitted, Omitted, Given("a"), Omitted, <<>>)>>,
     <<"title", Str("a")>>>>}

NestedData ==
  {<<<<"row", Node(Given("div"), Omitted, Omitted, Omitted,
                   <<<<"link", Str("a")>>>>)>>>>,
   <<<<"row", Node(Omitted, Given("div"), Omitted, Omitted,
                   <<<<"link", Node(Given("a"), Omitted, Omitted, Given("href"), <<>>)>>,
                     <<"title", Node(Omitted, Omitted, Given("div"), Omitted, <<>>)>>>>)>>>>,
   <<<<"title", Str("a")>>,
     <<"row", Node(Given("div"), Omitted, Omitted, Omitted,
                   <<<<"link", Str("a")>>>>)>>>>,
   <<<<"row", Node(Given("div"), Omitted, Omitted, Omitted,
                   <<<<"cell", Node(Given("div"), Omitted, Omitted, Omitted,
                                    <<<<"link", Str("a")>>>>)>>>>)>>>>}

\* what a key of a result record holds: nothing, a value, an array of
\* values, or a nested record (by its number in recs)
Undefined == [t |-> "undefined", items |-> <<>>, ref |-> 0]
Value(v) == [t |-> "value", items |-> <<v>>, ref |-> 0]
ValueArray(vs) == [t |-> "array", items |-> vs, ref |-> 0]
Object(r) == [t |-> "object", items |-> <<>>, ref |-> r]

\* {}: a new record; owner is the element a structural node created it for
\* (0 for the records of the result sequence), hist the values assigned per
\* key, in order
NewRecord(owner) ==
  [owner |-> owner, vals |-> [k \in Keys |-> Undefined],
   hist |-> [k \in Keys |-> <<>>]]

\* lines 102-104; seq numbers the tasks in the order they enter the queue,
\* by is the task that pushed it (0 for the entries of step.data)
Entries(data) ==
  [n \in 1..Len(data) |->
     [elem |-> 0, key |-> data[n][1], result |-> 0, value |-> data[n][2],
      seq |-> n, by |-> 0]]

\* match(page, step) up to its loop, lines 102-115
StartMatch(doc, data) ==
  [doc |-> doc, data |-> data, entries |-> Tail(Entries(data)),
   cur |-> Head(Entries(data)), results |-> <<>>, recs |-> <<>>, done |-> FALSE,
   pushed |-> Len(data), shifted |-> <<1>>]

\* no match call in progress
NoMatch ==
  [doc |-> <<>>, data |-> <<>>, entries |-> <<>>, cur |-> <<>>, results |-> <<>>,
   recs |-> <<>>, done |-> TRUE, pushed |-> 0, shifted |-> <<>>]

\* results[i] = results[i] || {} (i counts from 1 here)
EnsureRecord(M, i) ==
  IF i <= Len(M.results) THEN M
  ELSE [M EXCEPT !.recs = Append(@, NewRecord(0)),
                 !.results = Append(@, Len(M.recs) + 1)]

\* let ref = result; if (!ref) { ref = results[i] = results[i] || {} }
RefOf(M, result, i) == IF result # 0 THEN result ELSE EnsureRecord(M, i).results[i]

\* lines 188-192
AssignOverwrite(old, value) == Value(value)

Assign(old, value) ==
  IF old.t # "undefined" THEN ValueArray(old.items \o <<value>>) ELSE Value(value)

\* lines 155-179: the values of a leaf, scoped to the task's element
LeafValuesFirstOnly(doc, elem, f) ==
  IF f.selector # Omitted /\ Matches(doc, elem, f.selector[1]) # <<>>
  THEN <<AttrValue(Matches(doc, elem, f.selector[1])[1], f.attribute)>>
  ELSE <<>>

LeafValues(doc, elem, f) ==
  IF f.selector # Omitted
  THEN LET elems == Matches(doc, elem, f.selector[1])
       IN [n \in 1..Len(elems) |-> AttrValue(elems[n], f.attribute)]
  ELSE IF f.xpath # Omitted
  THEN LET elems == Matches(doc, elem, f.xpath[1])
       IN [n \in 1..Len(elems) |-> AttrValue(elems[n], f.attribute)]
  ELSE IF f.regex # Omitted
  THEN LET found == RegexMatches(doc, elem, f.regex[1])
       IN [n \in 1..Len(found) |-> AttrValue(found[n], "match")]
  ELSE <<>>

\* values.forEach((value, i) => ...), lines 181-193, from the i-th value on
RECURSIVE LeafEach(_, _, _, _)
LeafEach(M, task, values, i) ==
  IF i > Len(values) THEN M
  ELSE LET E == IF task.result # 0 THEN M ELSE EnsureRecord(M, i)
           ref == RefOf(M, task.result, i)
           W == [E EXCEPT !.recs[ref].vals[task.key] = Assign(@, values[i]),
                          !.recs[ref].hist[task.key] = Append(@, values[i])]
       IN LeafEach(W, task, values, i + 1)

\* childEntries.forEach(([key, value]) => entries.push({ elem, key, value,
\* result: ref }))
ChildEntries(children, elem, ref, pushed, by) ==
  [n \in 1..Len(children) |->
     [elem |-> elem, key |-> children[n][1], result |-> ref,
      value |-> children[n][2], seq |-> pushed + n, by |-> by]]

\* elems.forEach((elem, i) => ...), lines 139-151, from the i-th element on
RECURSIVE StructuralEach(_, _, _, _, _)
StructuralEach(M, task, elems, children, i) ==
  IF i > Len(elems) THEN M
  ELSE LET E == IF task.result # 0 THEN M ELSE EnsureRecord(M, i)
           ref == RefOf(M, task.result, i)
           new == Len(E.recs) + 1
           W == [E EXCEPT !.recs = Append([@ EXCEPT ![ref].vals[task.key] = Object(new)],
                                          NewRecord(elems[i])),
                          !.entries = @ \o ChildEntries(children, elems[i], new,
                                                        E.pushed, task.seq),
                          !.pushed = @ + Len(children)]
       IN StructuralEach(W, task, elems, children, i + 1)

\* lines 196-200
ShiftedNewest(M) ==
  IF M.entries # <<>>
  THEN [M EXCEPT !.cur = M.entries[Len(M.entries)],
                 !.entries = SubSeq(M.entries, 1, Len(M.entries) - 1),
                 !.shifted = Append(@, M.entries[Len(M.entries)].seq)]
  ELSE [M EXCEPT !.cur = <<>>, !.done = TRUE]

Shifted(M) ==
  IF M.entries # <<>>
  THEN [M EXCEPT !.cur = Head(M.entries), !.entries = Tail(M.entries),
                 !.shifted = Append(@, Head(M.entries).seq)]
  ELSE [M EXCEPT !.cur = <<>>, !.done = TRUE]

(* ------------------------------- state -------------------------------- *)

\* one frame per loop a task is inside: main's step loop, a repeat's
\* iteration loop, a crawl branch's sub-step loop
Frame(kind, steps, i, j, iters) ==
  [kind |-> kind, steps |-> steps, k |-> 1, i |-> i, j |-> j, iters |-> iters]

NewTask(status, frame, link, parent, ticket) ==
  [status |-> status, stack |-> <<frame>>, page |-> 0, link |-> link,
   parent |-> parent, kids |-> {}, log |-> <<>>, ticket |-> ticket,
   callRel |-> 0, callFull |-> FALSE, releases |-> 0, failedAt |-> "none",
   pending |-> {},
   targets |-> 0, spawned |-> 0, found |-> <<>>]

Top(tk) == tk.stack[Len(tk.stack)]

CurStep(tk) == Top(tk).steps[Top(tk).k]

\* the index handleStep receives for the current step of the top frame
CurIndex(tk) ==
  IF Top(tk).kind = "repeat"
  THEN RepeatIndex(Top(tk).i, Top(tk).iters, Top(tk).j)
  ELSE Top(tk).i

HoldingStatuses == {"handed", "nav", "run", "leaf", "both", "match", "all"}

\* task tk is between getPage handing it page p and its releasePage(p)
Holds(tk, p) == tk.page = p /\ tk.status \in HoldingStatuses

Owned(P, p) == \E t \in 1..Len(P.tasks) : Holds(P.tasks[t], p)

\* the browser.newPage() calls of getPage still in flight
Creating(P) ==
  Cardinality({t \in 1..Len(P.tasks) : P.tasks[t].status = "newPage"})

\* the pool and the tasks as one value, for the synchronous code that
\* touches several of them in one run-to-await
Pool ==
  [pages |-> pages, queue |-> queue, numPages |-> numPages, tasks |-> tasks,
   calls |-> calls, relCount |-> relCount, session |-> session]

SetPool(P) ==
  /\ pages' = P.pages
  /\ queue' = P.queue
  /\ numPages' = P.numPages
  /\ tasks' = P.tasks
  /\ calls' = P.calls
  /\ relCount' = P.relCount
  /\ session' = P.session

\* the browser session after puppeteer.launch and browser.newPage (line
\* 369): open, main's page blank, no timer set, the process running
NewSession ==
  [open |-> TRUE, url |-> "about:blank", timer |-> Omitted, exitCode |-> Omitted]

InitOver(configs) ==
  /\ config \in configs
  /\ pages = <<>>
  /\ queue = <<>>
  /\ numPages = 0
  /\ tasks = <<NewTask("goto", Frame("main", config.steps, 0, 0, 0), "", 0, 0)>>
  /\ files = {}
  /\ calls = 0
  /\ relCount = 0
  /\ misuses = 0
  /\ session = NewSession
  /\ mt = NoMatch

Init == InitOver(Configs(StepLists) \cup SequentialConfigs)

(* ----------------------------- page pool ------------------------------ *)

\* if (numPages < config.maxPages): with maxPages omitted the comparison
\* is against undefined and is false
CanCreateOffByOne(n, maxPages) == maxPages # Omitted /\ n <= maxPages[1]

CanCreate(n, maxPages) == maxPages # Omitted /\ n < maxPages[1]

\* pages.find(page => page.available): the first in push order, 0 for none
FindAny(ps) == IF ps = <<>> THEN 0 ELSE 1

FindAvailable(ps) ==
  LET avail == {p \in 1..Len(ps) : ps[p].available}
  IN IF avail = {} THEN 0
     ELSE CHOOSE p \in avail : \A q \in avail : p <= q

\* page.available = false (line 388)
MarkTakenForgotten(ps, p) == ps

MarkTaken(ps, p) == [ps EXCEPT ![p].available = FALSE]

\* browser.getPage up to its first await (or its return, when a page is
\* available), called by task t
getPage(P, t) ==
  LET p == FindAvailable(P.pages)
      full == /\ config.maxPages # Omitted
              /\ Len(P.pages) + Creating(P) = config.maxPages[1]
              /\ \A q \in 1..Len(P.pages) : Owned(P, q)
      Q == [P EXCEPT !.calls = @ + 1,
                     !.tasks[t].ticket = P.calls + 1,
                     !.tasks[t].callRel = P.relCount,
                     !.tasks[t].callFull = full]
  IN IF p # 0
     THEN [Q EXCEPT !.pages = MarkTaken(@, p),
                    !.tasks[t].page = p,
                    !.tasks[t].status = "nav"]
     ELSE IF CanCreate(P.numPages, config.maxPages)
     THEN [Q EXCEPT !.numPages = @ + 1, !.tasks[t].status = "newPage"]
     ELSE [Q EXCEPT !.queue = Append(@, t), !.tasks[t].status = "queued"]

\* const resolve = queue.shift()
shiftNewest(q) == [resolve |-> q[Len(q)], rest |-> SubSeq(q, 1, Len(q) - 1)]

shift(q) == [resolve |-> Head(q), rest |-> Tail(q)]

\* browser.releasePage(page)
releasePageAlsoAvailable(P, p) ==
  IF P.queue # <<>>
  THEN LET w == shift(P.queue).resolve
       IN [P EXCEPT !.queue = shift(P.queue).rest,
                    !.tasks[w].page = p,
                    !.tasks[w].status = "handed",
                    !.pages[p].available = TRUE,
                    !.relCount = @ + 1]
  ELSE [P EXCEPT !.pages[p].available = TRUE, !.relCount = @ + 1]

releasePage(P, p) ==
  IF P.queue # <<>>
  THEN LET w == shift(P.queue).resolve
       IN [P EXCEPT !.queue = shift(P.queue).rest,
                    !.tasks[w].page = p,
                    !.tasks[w].status = "handed",
                    !.relCount = @ + 1]
  ELSE [P EXCEPT !.pages[p].available = TRUE, !.relCount = @ + 1]

(* -------------------------- step interpreter -------------------------- *)

AliveWithoutExit == TRUE

Alive == tasks[Main].status # "failed"

SetTop(tk, f) == [tk EXCEPT !.stack[Len(tk.stack)] = f]

\* the URL task t's page shows: main's page, or the pool handle t holds
PageUrl(P, t) ==
  IF P.tasks[t].page = 0 THEN P.session.url ELSE P.pages[P.tasks[t].page].url

Logged(tk, ev, url) ==
  [tk EXCEPT !.log = Append(@, [ev |-> ev, k |-> Top(tk).k, i |-> CurIndex(tk),
                                 page |-> tk.page, url |-> url])]

\* the next statement of the loop the task is in
Advance(tk) == SetTop(tk, [Top(tk) EXCEPT !.k = @ + 1])

Awaiting(t, status) ==
  /\ Alive
  /\ t \in 1..Len(tasks)
  /\ tasks[t].status = status

\* the end of a crawl branch: browser.releasePage(page), line 260
Finish(P, t) ==
  LET Q == releasePage(P, P.tasks[t].page)
  IN [Q EXCEPT !.tasks[t].status = "done", !.tasks[t].releases = @ + 1]

\* catch (err) { console.error(err) } of a crawl branch, then line 260
CaughtRethrown(P, t, where) ==
  [P EXCEPT !.tasks[t].status = "rejected", !.tasks[t].failedAt = where]

CaughtUnreleased(P, t, where) ==
  [P EXCEPT !.tasks[t].status = "done", !.tasks[t].failedAt = where]

Caught(P, t, where) ==
  Finish([P EXCEPT !.tasks[t].failedAt = where], t)

\* an exception in task t: main has no handler but main().catch, a crawl
\* branch catches everything past its getPage
Throw(P, t, where) ==
  IF t = Main
  THEN \* main().catch: console.error(err), process.exit(1)
       [P EXCEPT !.tasks[t].status = "failed", !.tasks[t].failedAt = where,
                 !.session.exitCode = Given(1)]
  ELSE Caught(P, t, where)

\* the end of main, lines 417-421
MainEndNeverCloses(P) == [P EXCEPT !.tasks[Main].status = "done"]

MainEnd(P) ==
  IF IsPositiveInteger(config.keepOpenAfter)
  THEN \* setTimeout(() => browser.close(), config.keepOpenAfter)
       [P EXCEPT !.session.timer = Given(config.keepOpenAfter.n),
                 !.tasks[Main].status = "done"]
  ELSE IF IsFalsy(config.keepOpenAfter)
  THEN \* await browser.close()
       [P EXCEPT !.tasks[Main].status = "closing"]
  ELSE [P EXCEPT !.tasks[Main].status = "done"]

\* handleStep(browser, page, step, i) for the current step of task t, and
\* the loop around it (main's, a repeat's, a crawl branch's), run up to the
\* task's next await
RECURSIVE handleStep(_, _)
RECURSIVE Continue(_, _)
handleStep(P, t) ==
  LET tk == P.tasks[t]
      step == CurStep(tk)
  IN CASE step.action = "click" /\ ClickWaitKind(step) # Omitted ->
            \* wait(page, ...) is called, then the click is dispatched, then
            \* await Promise.all(promises); wait throws for an unknown kind
            IF PageHasWaitFor(ClickWaitKind(step)[1])
            THEN LET url == PageUrl(P, t)
                     one == Logged(tk, PartEvent(ClickParts[1], "start"), url)
                     two == Logged(one, PartEvent(ClickParts[2], "start"), url)
                 IN [P EXCEPT !.tasks[t] =
                       [two EXCEPT !.status = "both", !.pending = {"wait", "click"}]]
            ELSE Throw(P, t, "typeError")
       [] step.action \in LeafActions \ {"wait"}
            /\ ~(step.action = "click" /\ ClickWaitKind(step) # Omitted) ->
            \* click, scrape, screenshot, type: up to the driver call
            [P EXCEPT !.tasks[t] =
               [Logged(tk, "start", PageUrl(P, t)) EXCEPT !.status = "leaf"]]
       [] step.action = "wait" ->
            \* await wait(page, step): page['waitFor' + method](...args) calls
            \* undefined, a TypeError, when the page has no such method
            IF step.for # Omitted /\ PageHasWaitFor(step.for[1])
            THEN [P EXCEPT !.tasks[t] =
                    [Logged(tk, "start", PageUrl(P, t)) EXCEPT !.status = "leaf"]]
            ELSE Throw(P, t, "typeError")
       [] step.action = "go" ->
            \* await page[method(...args)] calls method, a string: a TypeError
            \* before the page is touched
            LET method == GoMethod(step.where[1])
            IN Throw(P, t, "typeError")
       [] step.action = "repeat" ->
            \* the first iteration, j = 1
            Continue([P EXCEPT !.tasks[t].stack =
                        Append(@, Frame("repeat", step.subSteps, CurIndex(tk), 1,
                                        Iters(step.times)))], t)
       [] step.action = "crawl" ->
            \* await match(page, { data })
            [P EXCEPT !.tasks[t].status = "match"]

Continue(P, t) ==
  LET tk == P.tasks[t]
      f == Top(tk)
  IN IF f.k <= Len(f.steps) THEN handleStep(P, t)
     ELSE CASE f.kind = "main" ->
                 \* main's step loop is over
                 MainEnd(P)
            [] f.kind = "branch" ->
                 \* the sub-step loop of a branch is over
                 Finish(P, t)
            [] f.kind = "repeat" ->
                 \* for (let j = 1; j <= iters; j++): next iteration, or break
                 IF f.j < f.iters
                 THEN Continue([P EXCEPT !.tasks[t] =
                                  SetTop(tk, [f EXCEPT !.j = @ + 1, !.k = 1])], t)
                 ELSE Continue([P EXCEPT !.tasks[t] =
                                  Advance([tk EXCEPT !.stack = SubSeq(@, 1, Len(@) - 1)])], t)

\* await page.goto(config.url), then the step loop
InitialNavOk ==
  /\ Awaiting(Main, "goto")
  /\ SetPool(Continue([Pool EXCEPT !.tasks[Main].status = "run",
                                    !.session.url = "start"], Main))
  /\ UNCHANGED <<mt, config, files, misuses>>

InitialNavFail ==
  /\ Awaiting(Main, "goto")
  /\ SetPool(Throw(Pool, Main, "nav"))
  /\ UNCHANGED <<mt, config, files, misuses>>

\* the driver call of a leaf step returns; scrape and screenshot have
\* written their file
LeafOk(t) ==
  /\ Awaiting(t, "leaf")
  /\ SetPool(Continue([Pool EXCEPT !.tasks[t] =
                          Advance(Logged(@, "end", PageUrl(Pool, t)))], t))
  /\ files' = IF CurStep(tasks[t]).action \in WritingActions
              THEN files \cup {replaceIndex(CurStep(tasks[t]).path, CurIndex(tasks[t]))}
              ELSE files
  /\ UNCHANGED <<mt, config, misuses>>

\* one of the two promises of a click step fulfils; Promise.all fulfils
\* with the second
PartOk(t, part) ==
  /\ Awaiting(t, "both")
  /\ part \in tasks[t].pending
  /\ LET tk == [Logged(tasks[t], PartEvent(part, "end"), PageUrl(Pool, t))
                 EXCEPT !.pending = @ \ {part}]
     IN IF tk.pending = {}
        THEN SetPool(Continue([Pool EXCEPT !.tasks[t] =
                                 [Advance(tk) EXCEPT !.status = "run"]], t))
        ELSE SetPool([Pool EXCEPT !.tasks[t] = tk])
  /\ UNCHANGED <<mt, config, files, misuses>>

\* one of the two promises of a click step rejects: so does Promise.all
PartFail(t, part) ==
  /\ Awaiting(t, "both")
  /\ part \in tasks[t].pending
  /\ SetPool(Throw([Pool EXCEPT !.tasks[t] =
                      Logged(@, PartEvent(part, "fail"), PageUrl(Pool, t))], t, "sub"))
  /\ UNCHANGED <<mt, config, files, misuses>>

LeafFail(t) ==
  /\ Awaiting(t, "leaf")
  /\ SetPool(Throw(Pool, t, "sub"))
  /\ UNCHANGED <<mt, config, files, misuses>>

\* match of a crawl step rejects
CrawlMatchFail(t) ==
  /\ Awaiting(t, "match")
  /\ SetPool(Throw(Pool, t, "sub"))
  /\ UNCHANGED <<mt, config, files, misuses>>

\* links.map(async (link, j) => { const page = await browser.getPage() ...:
\* every branch starts, in link order, and runs up to its getPage's await
RECURSIVE SpawnAll(_, _, _, _, _)
SpawnAll(P, t, links, rlen, j) ==
  IF j >= Len(links) THEN P
  ELSE LET id == Len(P.tasks) + 1
           parent == P.tasks[t]
           f == Frame("branch", CurStep(parent).subSteps,
                      CrawlIndex(rlen, CurIndex(parent), j), 0, 0)
           nt == NewTask("start", f, links[j + 1], t, 0)
           Q == [P EXCEPT !.tasks = Append(@, nt)]
       IN SpawnAll(getPage(Q, id), t, links, rlen, j + 1)

\* match returned: line 245 computes the links (a TypeError when a record's
\* links is no array), lines 247-263 start the branches and await them all
CrawlMatched(t) ==
  /\ Awaiting(t, "match")
  /\ \E results \in MatchResults :
       LET targets == Len(FlatLinks(results))
           first == Len(tasks) + 1
           P == [Pool EXCEPT !.tasks[t].targets = targets, !.tasks[t].spawned = 0,
                             !.tasks[t].found = FlatLinks(results)]
       IN /\ Len(tasks) - 1 + targets <= MaxBranches
          /\ IF \E e \in 1..Len(results) : ~results[e].arr
             THEN SetPool(Throw(P, t, "typeError"))
             ELSE LET links == FlatLinks(results)
                      Q == SpawnAll(P, t, links, Len(results), 0)
                  IN SetPool([Q EXCEPT !.tasks[t].status = "all",
                                       !.tasks[t].spawned = Len(links),
                                       !.tasks[t].kids = first..(first + Len(links) - 1)])
  /\ UNCHANGED <<mt, config, files, misuses>>

\* await Promise.all(promises): every branch fulfilled
CrawlAllDone(t) ==
  /\ Awaiting(t, "all")
  /\ \A c \in tasks[t].kids : tasks[c].status = "done"
  /\ SetPool(Continue([Pool EXCEPT !.tasks[t] = [Advance(@) EXCEPT !.status = "run"]], t))
  /\ UNCHANGED <<mt, config, files, misuses>>

\* await Promise.all(promises): a branch rejected
CrawlAllRejected(t) ==
  /\ Awaiting(t, "all")
  /\ \E c \in tasks[t].kids : tasks[c].status = "rejected"
  /\ SetPool(Throw(Pool, t, "sub"))
  /\ UNCHANGED <<mt, config, files, misuses>>

\* page = await browser.newPage(); pages.push(page); page.available = false;
\* the branch then calls page.goto(link)
NewPageOk(t) ==
  /\ Awaiting(t, "newPage")
  /\ LET p == Len(pages) + 1
     IN /\ pages' = Append(pages, [available |-> FALSE, url |-> "about:blank"])
        /\ tasks' = [tasks EXCEPT ![t].page = p, ![t].status = "nav"]
  /\ UNCHANGED <<mt, config, queue, numPages, files, calls, relCount, misuses, session>>

\* browser.newPage() rejects: so does getPage, outside the branch's try
NewPageFail(t) ==
  /\ Awaiting(t, "newPage")
  /\ tasks' = [tasks EXCEPT ![t].status = "rejected"]
  /\ UNCHANGED <<mt, config, pages, queue, numPages, files, calls, relCount, misuses,
                 session>>

\* a queued getPage resumes with the page handed to it: page.available =
\* false, return page; the branch then calls page.goto(link)
GetPageResume(t) ==
  /\ Awaiting(t, "handed")
  /\ pages' = MarkTaken(pages, tasks[t].page)
  /\ tasks' = [tasks EXCEPT ![t].status = "nav"]
  /\ UNCHANGED <<mt, config, queue, numPages, files, calls, relCount, misuses, session>>

\* await page.goto(link), then the sub-step loop
NavOkUnawaited(t) ==
  /\ Awaiting(t, "nav")
  /\ SetPool(Continue([Pool EXCEPT !.tasks[t].status = "run"], t))
  /\ UNCHANGED <<mt, config, files, misuses>>

NavOk(t) ==
  /\ Awaiting(t, "nav")
  /\ SetPool(Continue([Pool EXCEPT !.tasks[t].status = "run",
                                    !.pages[tasks[t].page].url = tasks[t].link], t))
  /\ UNCHANGED <<mt, config, files, misuses>>

NavFail(t) ==
  /\ Awaiting(t, "nav")
  /\ SetPool(Throw(Pool, t, "nav"))
  /\ UNCHANGED <<mt, config, files, misuses>>

\* await browser.close() of main resolves
BrowserClosed ==
  /\ Awaiting(Main, "closing")
  /\ tasks' = [tasks EXCEPT ![Main].status = "done"]
  /\ session' = [session EXCEPT !.open = FALSE]
  /\ UNCHANGED <<mt, config, pages, queue, numPages, files, calls, relCount, misuses>>

\* the timer set at line 418 fires: browser.close()
TimerFires ==
  /\ Alive
  /\ session.timer # Omitted
  /\ session' = [session EXCEPT !.timer = Omitted, !.open = FALSE]
  /\ UNCHANGED <<mt, config, pages, queue, numPages, tasks, files, calls, relCount,
                 misuses>>

TaskIds == 1..(MaxBranches + 1)

Next ==
  \/ InitialNavOk
  \/ InitialNavFail
  \/ \E t \in TaskIds : LeafOk(t)
  \/ \E t \in TaskIds : LeafFail(t)
  \/ \E t \in TaskIds : CrawlMatchFail(t)
  \/ \E t \in TaskIds : CrawlMatched(t)
  \/ \E t \in TaskIds : CrawlAllDone(t)
  \/ \E t \in TaskIds : CrawlAllRejected(t)
  \/ \E t \in TaskIds : NewPageOk(t)
  \/ \E t \in TaskIds : NewPageFail(t)
  \/ \E t \in TaskIds : GetPageResume(t)
  \/ \E t \in TaskIds : NavOk(t)
  \/ \E t \in TaskIds : NavFail(t)
  \/ \E t \in TaskIds, part \in {"wait", "click"} : PartOk(t, part)
  \/ \E t \in TaskIds, part \in {"wait", "click"} : PartFail(t, part)
  \/ BrowserClosed
  \/ TimerFires

Spec == Init /\ [][Next]_vars

\* the same program run on the composite configs
InitComposite == InitOver(Configs(CompositeStepLists) \cup SequentialConfigs)

SpecComposite == InitComposite /\ [][Next]_vars

(* ------------------------- misuse of the pool ------------------------- *)

\* calls of releasePage by callers that do not own the page
MaxMisuses == 1

\* browser.releasePage(page) called for a page the caller does not own: one
\* already released, or one never acquired
MisuseRelease(p) ==
  /\ Alive
  /\ misuses < MaxMisuses
  /\ p \in 1..Len(pages)
  /\ SetPool(releasePage(Pool, p))
  /\ misuses' = misuses + 1
  /\ UNCHANGED <<mt, config, files>>

NextMisuse ==
  \/ Next
  \/ \E p \in 1..MaxPagesBound : MisuseRelease(p)

SpecMisuse == Init /\ [][NextMisuse]_vars

(* --------------------------- match: the loop -------------------------- *)

\* one turn of the loop for a value with children, lines 134-151: the
\* node's selector or xpath is resolved with page.$$ or page.$x
MatchStructural ==
  /\ ~mt.done
  /\ Fields(mt.cur.value).children # <<>>
  /\ LET f == Fields(mt.cur.value)
         arg == IF f.selector # Omitted THEN f.selector[1] ELSE f.xpath[1]
         elems == Matches(mt.doc, 0, arg)
     IN mt' = Shifted(StructuralEach(mt, mt.cur, elems, f.children, 1))
  /\ UNCHANGED <<config, pages, queue, numPages, tasks, files, calls, relCount,
                 misuses, session>>

\* one turn of the loop for a value without children, lines 152-194
MatchLeaf ==
  /\ ~mt.done
  /\ Fields(mt.cur.value).children = <<>>
  /\ LET values == LeafValues(mt.doc, mt.cur.elem, Fields(mt.cur.value))
     IN mt' = Shifted(LeafEach(mt, mt.cur, values, 1))
  /\ UNCHANGED <<config, pages, queue, numPages, tasks, files, calls, relCount,
                 misuses, session>>

\* a scrape step of main has called match(page, step) for one of the data
\* on one of the documents
InitMatch ==
  /\ config = [maxPages |-> Omitted, steps |-> <<Scrape>>,
               keepOpenAfter |-> KeepUndefined]
  /\ pages = <<>>
  /\ queue = <<>>
  /\ numPages = 0
  /\ tasks = <<[NewTask("leaf", Frame("main", config.steps, 0, 0, 0), "", 0, 0)
                  EXCEPT !.log = <<[ev |-> "start", k |-> 1, i |-> 0, page |-> 0,
                                    url |-> "start"]>>]>>
  /\ files = {}
  /\ calls = 0
  /\ relCount = 0
  /\ misuses = 0
  /\ session = [NewSession EXCEPT !.url = "start"]
  /\ \E doc \in Docs, data \in LeafData \cup NestedData : mt = StartMatch(doc, data)

NextMatch == MatchStructural \/ MatchLeaf

SpecMatch == InitMatch /\ [][NextMatch]_vars

(* ------------------------------- claims ------------------------------- *)

Tasks == 1..Len(tasks)

Branches == 2..Len(tasks)

Holders(p) == {t \in Tasks : Holds(tasks[t], p)}

\* C1: for an integer maxPages = N >= 1 the handles the pool has created,
\* those whose creation is still in flight included, never number more
\* than N, however many getPage calls were issued together
C1_PoolBounded ==
  config.maxPages # Omitted =>
    /\ numPages <= config.maxPages[1]
    /\ Len(pages) + Creating(Pool) <= config.maxPages[1]

\* three getPage calls issued together against maxPages = 2: two handles
\* exist and the third call waits
C1_Witness ==
  /\ config.maxPages = Given(2)
  /\ Len(pages) = 2
  /\ Len(queue) >= 1
  /\ calls >= 3

\* C2: every pool handle is owned by at most one crawl branch at a time, and
\* a handle marked available is owned by none
C2_ExclusiveOwner ==
  \A p \in 1..Len(pages) :
    /\ Cardinality(Holders(p)) <= 1
    /\ pages[p].available => Holders(p) = {}

\* a handle released by one branch is owned by another while a second
\* handle is owned as well
C2_Witness ==
  \E p, q \in 1..Len(pages) : \E t, u, v \in Branches :
    /\ p # q
    /\ t # u
    /\ tasks[t].status = "done" /\ tasks[t].page = p
    /\ Holds(tasks[u], p)
    /\ Holds(tasks[v], q)

\* C3: a handle released while getPage calls are queued goes to the oldest
\* of them (no call still queued was made before a call that has been
\* served), and it is not marked available between the release and the
\* waiter resuming
C3_OldestWaiterServed ==
  \A w \in Tasks : tasks[w].status = "handed" =>
    /\ ~pages[tasks[w].page].available
    /\ \A q \in Tasks : tasks[q].status = "queued" =>
         tasks[w].ticket < tasks[q].ticket

\* a release found two waiters queued: one has the handle, one still waits
C3_Witness ==
  \E w, q \in Tasks :
    /\ tasks[w].status = "handed"
    /\ tasks[q].status = "queued"
    /\ relCount >= 1

\* C4: a getPage call made when maxPages = N handles exist (or are being
\* created) and every one is owned creates no further handle, and once it
\* has a handle a releasePage call has happened since the call and nobody
\* else owns that handle
C4_WaitsForRelease ==
  \A t \in Tasks : tasks[t].callFull =>
    /\ tasks[t].status # "newPage"
    /\ tasks[t].page # 0 =>
         /\ relCount > tasks[t].callRel
         /\ tasks[t].status \in HoldingStatuses => Holders(tasks[t].page) = {t}

\* a call made against a full pool has returned, after a release
C4_Witness ==
  \E t \in Tasks :
    /\ tasks[t].callFull
    /\ tasks[t].status \in {"nav", "leaf"}
    /\ relCount > tasks[t].callRel

\* C5 (as claimed): with an integer maxPages, a crawl whose match resolved k
\* non-falsy link targets has started k branches, one per link
C5_BranchPerLink ==
  config.maxPages # Omitted =>
    \A t \in Tasks : tasks[t].spawned = tasks[t].targets

\* C6: a failure of the navigation or of a sub-step in a crawl branch is
\* caught in that branch (the branch ends fulfilled, never rejected), the
\* step that fails changes no other task but a waiter given the released
\* handle, and the crawl step leaves its Promise.all with an error only when
\* a branch's getPage rejected
C6_Caught ==
  \A t \in Branches :
    tasks[t].failedAt # "none" => tasks[t].status = "done"

C6_Isolated ==
  \A t \in Branches :
    (tasks[t].failedAt = "none" /\ tasks'[t].failedAt # "none") =>
      \A u \in Tasks \ {t} :
        \/ tasks'[u] = tasks[u]
        \/ /\ tasks[u].status = "queued"
           /\ tasks'[u] = [tasks[u] EXCEPT !.status = "handed",
                                           !.page = tasks[t].page]

C6_CrawlReturns ==
  \A t \in Tasks :
    (/\ tasks[t].status = "all"
     /\ tasks'[t].status # "all"
     /\ \A c \in tasks[t].kids : tasks[c].status # "rejected") =>
      /\ tasks'[t].status \in {"leaf", "match", "done", "closing"}
      /\ tasks'[t].failedAt = "none"

C6_BranchFailureIsolated ==
  []C6_Caught /\ [][C6_Isolated /\ C6_CrawlReturns]_vars

\* one branch failed, its sibling ran all its sub-steps, and main went on
\* past the crawl step
C6_Witness ==
  /\ tasks[Main].status = "done"
  /\ \E t, u \in Branches :
       /\ tasks[t].parent = tasks[u].parent
       /\ tasks[t].failedAt # "none"
       /\ tasks[u].failedAt = "none"
       /\ tasks[u].status = "done"
       /\ Len(tasks[u].log) = 2 * Len(tasks[u].stack[1].steps)
       /\ Len(tasks[u].log) > 0

\* C7: a crawl branch has released its handle exactly once when it has
\* ended, whether its sub-steps succeeded or something threw, and not at all
\* before: the handle of an ended branch is available or owned by another
C7_ReleasedOnce ==
  \A t \in Branches :
    /\ tasks[t].status = "done" =>
         /\ tasks[t].releases = 1
         /\ \/ pages[tasks[t].page].available
            \/ Holders(tasks[t].page) # {}
    /\ tasks[t].status # "done" => tasks[t].releases = 0

\* one branch ended by a failure and one by success, each after one release
C7_Witness ==
  \E t, u \in Branches :
    /\ tasks[t].status = "done" /\ tasks[t].failedAt # "none"
    /\ tasks[u].status = "done" /\ tasks[u].failedAt = "none"
    /\ tasks[t].releases = 1 /\ tasks[u].releases = 1

\* C8 (as claimed): releasePage for a handle the caller does not own leaves
\* the pool as it was: no handle marked available, none handed to a waiter
C8_MisuseLeavesPool ==
  [][misuses' # misuses =>
       (pages' = pages /\ queue' = queue /\ tasks' = tasks)]_vars

\* C9 (as claimed): with maxPages omitted the first getPage call creates a
\* handle, as with maxPages = 1
C9_DefaultIsOne ==
  (config.maxPages = Omitted /\ calls >= 1) => numPages >= 1

\* C10: a top-level repeat with times = n >= 1 over leaf sub-steps S1..Sm
\* starts and ends S1..Sm in declared order, each ending before the next starts,
\* at most n rounds (exactly n once main is done), and two executions get
\* the same index exactly when they belong to the same round
C10_RepeatInOrder ==
  LET st == config.steps[1]
      L == tasks[Main].log
  IN (/\ Len(config.steps) = 1
      /\ st.action = "repeat"
      /\ st.times # Omitted
      /\ st.times[1] >= 1
      /\ \A k \in 1..Len(st.subSteps) :
           st.subSteps[k].action \in LeafActions \cup {"go"}) =>
       LET n == st.times[1]
           m == Len(st.subSteps)
           round(p) == (p - 1) \div (2 * m)
       IN /\ Len(L) <= 2 * m * n
          /\ \A p \in 1..Len(L) :
               /\ L[p].ev = (IF p % 2 = 1 THEN "start" ELSE "end")
               /\ L[p].k = (((p - 1) \div 2) % m) + 1
          /\ \A p, q \in 1..Len(L) :
               (L[p].i = L[q].i) <=> (round(p) = round(q))
          /\ tasks[Main].status = "done" => Len(L) = 2 * m * n

\* repeat(times = 3) over two sub-steps has run to its end
C10_Witness ==
  /\ config.steps = <<Repeat(Given(3), <<Screenshot, Scrape>>)>>
  /\ tasks[Main].status = "done"
  /\ Len(tasks[Main].log) = 12

\* C11: when a step of main's own sequence (a top-level step or a sub-step
\* of a repeat, at any depth) throws, main is failed with exit code 1 and
\* nothing runs afterwards: no later step is started, no state changes; the
\* exit code is 1 only for a failed main
C11_Failed ==
  /\ tasks[Main].failedAt # "none" =>
       (tasks[Main].status = "failed" /\ session.exitCode = Given(1))
  /\ session.exitCode # Omitted => tasks[Main].status = "failed"

C11_Aborted == tasks[Main].status = "failed" => UNCHANGED vars

C11_ErrorAbortsRun == []C11_Failed /\ [][C11_Aborted]_vars

\* a sub-step of a repeat threw in the second of three rounds, after the
\* first round's files were written
C11_Witness ==
  /\ tasks[Main].status = "failed"
  /\ tasks[Main].failedAt = "sub"
  /\ Top(tasks[Main]).kind = "repeat"
  /\ Top(tasks[Main]).j = 2
  /\ Top(tasks[Main]).iters = 3
  /\ files # {}

\* C12: with keepOpenAfter 0, false or absent main is done only with the
\* browser closed; with keepOpenAfter a positive integer N main never awaits
\* a close: the step that ends main leaves the browser open with a close
\* timer of N ms set, and the browser is open until that timer fires
C12_Closed ==
  LET keep == config.keepOpenAfter
  IN /\ keep \in {KeepNumber(0), KeepBoolean(FALSE), KeepUndefined} =>
          (tasks[Main].status = "done" => ~session.open)
     /\ (keep.type = "number" /\ keep.n > 0) =>
          /\ tasks[Main].status # "closing"
          /\ tasks[Main].status = "done" =>
               \/ session.open /\ session.timer = Given(keep.n)
               \/ ~session.open /\ session.timer = Omitted
          /\ tasks[Main].status # "done" =>
               (session.open /\ session.timer = Omitted)

C12_Scheduled ==
  LET keep == config.keepOpenAfter
  IN (/\ keep.type = "number" /\ keep.n > 0
      /\ tasks[Main].status # "done"
      /\ tasks'[Main].status = "done") =>
       (session'.open /\ session'.timer = Given(keep.n))

C12_KeepOpenAfter == []C12_Closed /\ [][C12_Scheduled]_vars

\* main is done after both steps while the browser is open and the close
\* is due in 5000 ms
C12_Witness ==
  /\ config.keepOpenAfter = KeepNumber(5000)
  /\ config.steps = <<Screenshot, Scrape>>
  /\ tasks[Main].status = "done"
  /\ Len(tasks[Main].log) = 4
  /\ session.open
  /\ session.timer = Given(5000)

\* C13 (as claimed): a go step calls the driver's navigation for its where
\* value and ends without an error of its own: no task stops at a go step
\* with a TypeError
C13_GoCompletes ==
  \A t \in Tasks :
    tasks[t].failedAt = "typeError" => CurStep(tasks[t]).action # "go"

\* C14 (as claimed): a config with a wait step whose for is not one of the
\* known kinds is rejected before anything happens: main's page is never
\* navigated and no step is started
C14_UnknownWaitRejectedFirst ==
  (\E k \in 1..Len(config.steps) :
     /\ config.steps[k].action = "wait"
     /\ config.steps[k].for # Omitted
     /\ config.steps[k].for[1] \notin
          {"function", "navigation", "networkIdle", "request", "response",
           "selector", "timeout", "xpath"}) =>
    /\ session.url = "about:blank"
    /\ tasks[Main].log = <<>>

\* C18 (as claimed): a crawl whose match resolved the non-falsy link targets
\* f1..fn, in discovered order, has started n branches, the j-th for fj:
\* none for a falsy target, one per occurrence of a repeated target
C18_BranchPerTarget ==
  \A t \in Tasks :
    LET f == tasks[t].found
        kids == tasks[t].kids
    IN /\ Cardinality(kids) = Len(f)
       /\ \A j \in 1..Len(f) :
            \E c \in kids :
              /\ Cardinality({d \in kids : d < c}) = j - 1
              /\ tasks[c].link = f[j]

\* C19: for a repeat (n rounds) whose only sub-step is a repeat (m rounds)
\* of one leaf, the e-th execution of the leaf, in outer round o and inner
\* round j, gets index o * m + j in every run of the config, these indices
\* differ for different (o, j), and so do the files written
C19_NestedIndices ==
  LET outer == config.steps[1]
      L == tasks[Main].log
  IN (/\ Len(config.steps) = 1
      /\ outer.action = "repeat"
      /\ Len(outer.subSteps) = 1
      /\ outer.subSteps[1].action = "repeat"
      /\ Len(outer.subSteps[1].subSteps) = 1
      /\ outer.subSteps[1].subSteps[1].action \in LeafActions) =>
       LET m == Iters(outer.subSteps[1].times)
           exec(p) == (p - 1) \div 2
           o(p) == (exec(p) \div m) + 1
           j(p) == (exec(p) % m) + 1
       IN /\ \A p \in 1..Len(L) : L[p].i = o(p) * m + j(p)
          /\ \A p, q \in 1..Len(L) : exec(p) # exec(q) => L[p].i # L[q].i
          /\ Cardinality(files) = Len(L) \div 2

\* 3 outer rounds of 2 inner rounds have run: six executions, six files
C19_Witness ==
  /\ config.steps = <<Repeat(Given(3), <<Repeat(Given(2), <<Screenshot>>)>>)>>
  /\ tasks[Main].status = "done"
  /\ Len(tasks[Main].log) = 12
  /\ Cardinality(files) = 6

\* C20: in a crawl branch with leaf sub-steps no sub-step has started while
\* the branch waits for its handle or for page.goto(link); every sub-step
\* starts and ends on the handle showing the branch's link; the sub-steps
\* start in declared order, each after the one before has ended (a started
\* sub-step is running or has failed); whatever the sibling branches do in
\* between
C20_BranchInOrder ==
  \A t \in Branches :
    LET L == tasks[t].log
        steps == tasks[t].stack[1].steps
    IN (\A k \in 1..Len(steps) : steps[k].action \in LeafActions \cup {"go"}) =>
         /\ tasks[t].status \in {"start", "newPage", "queued", "handed", "nav"} =>
              L = <<>>
         /\ \A p \in 1..Len(L) :
              /\ L[p].ev = (IF p % 2 = 1 THEN "start" ELSE "end")
              /\ L[p].k = ((p - 1) \div 2) + 1
              /\ L[p].url = tasks[t].link
              /\ L[p].page = tasks[t].page
         /\ Len(L) <= 2 * Len(steps)
         /\ tasks[t].status = "leaf" => Len(L) % 2 = 1
         /\ Len(L) % 2 = 1 =>
              (tasks[t].status = "leaf" \/ tasks[t].failedAt = "sub")

\* two branches of one crawl on two handles: one is in its second sub-step
\* while the other is still in its first
C20_Witness ==
  \E t, u \in Branches :
    /\ tasks[t].parent = tasks[u].parent
    /\ tasks[t].page # tasks[u].page
    /\ tasks[t].status = "leaf" /\ Len(tasks[t].log) = 3
    /\ tasks[u].status = "leaf" /\ Len(tasks[u].log) = 1
    /\ t < u

\* the entries of step.data are leaves: no value has children
LeafOnly(data) == \A n \in 1..Len(data) : Fields(data[n][2]).children = <<>>

\* the nodes a leaf value resolves to on the page, in match order
ResolvedOnPage(doc, value) ==
  LET f == Fields(value)
  IN IF f.selector # Omitted THEN Matches(doc, 0, f.selector[1])
     ELSE IF f.xpath # Omitted THEN Matches(doc, 0, f.xpath[1])
     ELSE InOrder({n \in 1..Len(doc) : doc[n].tag = f.regex[1]})

\* C15: for data made of top-level leaves only, match returns as many
\* records as the largest number of nodes any key resolves to, and record j
\* holds under each key the value of the j-th node that key resolves to (the
\* j-th regex match), nothing when the key resolves to fewer than j nodes
C15_LeafRecords ==
  (mt.done /\ mt.data # <<>> /\ LeafOnly(mt.data)) =>
    LET nodes(n) == ResolvedOnPage(mt.doc, mt.data[n][2])
        attr(n) == IF Fields(mt.data[n][2]).selector = Omitted
                      /\ Fields(mt.data[n][2]).xpath = Omitted
                   THEN "match" ELSE Fields(mt.data[n][2]).attribute
    IN /\ \E n \in 1..Len(mt.data) : Len(mt.results) = Len(nodes(n))
       /\ \A n \in 1..Len(mt.data) : Len(nodes(n)) <= Len(mt.results)
       /\ \A j \in 1..Len(mt.results) : \A n \in 1..Len(mt.data) :
            mt.recs[mt.results[j]].vals[mt.data[n][1]] =
              IF j <= Len(nodes(n))
              THEN Value([attr |-> attr(n), node |-> nodes(n)[j]])
              ELSE Undefined

\* two keys, one resolving to two nodes and one to a single node: two
\* records, the second without the shorter key
C15_Witness ==
  /\ mt.done
  /\ Len(mt.data) = 2
  /\ LeafOnly(mt.data)
  /\ Len(mt.results) = 2
  /\ \E k \in Keys :
       /\ mt.recs[mt.results[1]].vals[k].t = "value"
       /\ mt.recs[mt.results[2]].vals[k].t = "undefined"

\* C16 (as claimed): a nested record attached to the record of element e
\* was created for an element matched below e, and the values of a record
\* created for element e come from e or from nodes below e
C16_ScopedToElement ==
  \A q \in 1..Len(mt.recs) : \A k \in Keys :
    LET e == mt.recs[q].owner
        held == mt.recs[q].vals[k]
    IN /\ (held.t = "object" /\ e # 0) =>
            mt.recs[held.ref].owner \in Within(mt.doc, e)
       /\ e # 0 =>
            \A n \in 1..Len(held.items) :
              held.items[n].node \in Within(mt.doc, e) \cup {e}

\* C17: a key of a record that leaf values were assigned to once holds that
\* value as a scalar, and one assigned to several times holds the array of
\* all the values assigned, in the order they were assigned
C17_CollisionArray ==
  \A r \in 1..Len(mt.recs) : \A k \in Keys :
    LET h == mt.recs[r].hist[k]
        held == mt.recs[r].vals[k]
    IN /\ Len(h) = 0 => held.t \in {"undefined", "object"}
       /\ Len(h) = 1 => held = Value(h[1])
       /\ Len(h) >= 2 => held = ValueArray(h)

\* the record of a row holds two links as an array, in document order, and
\* the next row's record holds its single link as a scalar
C17_Witness ==
  /\ mt.done
  /\ \E r, s \in 1..Len(mt.recs) :
       /\ mt.recs[r].vals["link"].t = "array"
       /\ Len(mt.recs[r].vals["link"].items) = 2
       /\ mt.recs[r].vals["link"].items[1].node < mt.recs[r].vals["link"].items[2].node
       /\ mt.recs[s].vals["title"].t = "value"

\* C21: in a click step that declares wait or waitFor the wait is started
\* first and the click dispatched next, before either has ended; the step
\* after it starts (or main ends) only when both have ended; and when
\* either fails the step has failed: main is failed and nothing follows
C21_ClickWithWait ==
  LET L == tasks[Main].log
      steps == config.steps
      declares(k) == steps[k].action = "click" /\ ClickWaitKind(steps[k]) # Omitted
  IN (\A k \in 1..Len(steps) : steps[k].action \in LeafActions) =>
       /\ \A p \in 1..Len(L) :
            /\ L[p].ev = "clickStart" =>
                 (p > 1 /\ L[p - 1].ev = "waitStart" /\ L[p - 1].k = L[p].k)
            /\ L[p].ev = "waitStart" =>
                 (tasks[Main].status # "failed" =>
                    (p < Len(L) /\ L[p + 1].ev = "clickStart"))
            /\ L[p].ev \in {"waitFail", "clickFail"} =>
                 (p = Len(L) /\ tasks[Main].status = "failed")
       /\ \A k \in 1..Len(steps) :
            (declares(k)
             /\ \/ \E p \in 1..Len(L) : L[p].k > k
                \/ tasks[Main].status \in {"closing", "done"}) =>
              /\ \E p \in 1..Len(L) : L[p].k = k /\ L[p].ev = "waitEnd"
              /\ \E p \in 1..Len(L) : L[p].k = k /\ L[p].ev = "clickEnd"

\* the click ended first and the step is still waiting for its wait: the
\* next step has not started
C21_Witness ==
  /\ config.steps = <<ClickWaitFor("navigation"), Screenshot>>
  /\ tasks[Main].status = "both"
  /\ tasks[Main].pending = {"wait"}
  /\ Len(tasks[Main].log) = 3
  /\ tasks[Main].log[3].ev = "clickEnd"

\* the most tasks a value of step.data can bring into the queue on a
\* document: itself and, for each of at most Len(doc) matched elements, the
\* tasks of its children
RECURSIVE TaskBound(_, _)
TaskBound(doc, value) ==
  LET children == Fields(value).children
      RECURSIVE Sum(_)
      Sum(n) == IF n = 0 THEN 0 ELSE TaskBound(doc, children[n][2]) + Sum(n - 1)
  IN 1 + Len(doc) * Sum(Len(children))

RECURSIVE DataBound(_, _)
DataBound(doc, data) ==
  IF data = <<>> THEN 0
  ELSE TaskBound(doc, Head(data)[2]) + DataBound(doc, Tail(data))

\* C22: match takes its tasks in the order they entered the queue, each
\* once (the tasks taken so far are tasks 1..n in that order); every task
\* still queued, and the current one, was pushed by a task taken before it;
\* and the loop ends with the queue empty: until it is done its current
\* task has a query to run, every turn takes a new task or ends the loop,
\* and the tasks taken never exceed a bound fixed by the data and the document
C22_Fifo ==
  /\ \A n \in 1..Len(mt.shifted) : mt.shifted[n] = n
  /\ Len(mt.shifted) + Len(mt.entries) = mt.pushed
  /\ \A n \in 1..Len(mt.entries) :
       /\ mt.entries[n].seq = Len(mt.shifted) + n
       /\ mt.entries[n].by < mt.entries[n].seq
       /\ mt.entries[n].by <= Len(mt.shifted)
  /\ ~mt.done => (mt.cur.seq = Len(mt.shifted) /\ mt.cur.by < mt.cur.seq)
  /\ mt.done => mt.entries = <<>>
  /\ ~mt.done =>
       LET f == Fields(mt.cur.value)
       IN f.children = <<>> \/ f.selector # Omitted \/ f.xpath # Omitted
  /\ mt.pushed <= DataBound(mt.doc, mt.data)

C22_Turn ==
  \/ mt'.done /\ mt'.entries = <<>> /\ Len(mt'.shifted) = mt'.pushed
  \/ ~mt'.done /\ Len(mt'.shifted) = Len(mt.shifted) + 1

C22_QueueInOrderAndEnds == []C22_Fifo /\ [][C22_Turn]_vars

\* a match over nested structural nodes has ended after taking more tasks
\* than step.data has entries, children of children among them
C22_Witness ==
  /\ mt.done
  /\ Len(mt.data) = 1
  /\ Len(mt.shifted) >= 5
  /\ Len(mt.recs) >= 4

\* C23: with an integer maxPages, whenever a getPage call is queued no
\* handle of the pool is marked available and numPages equals maxPages
C23_QueuedMeansFull ==
  (config.maxPages # Omitted /\ queue # <<>>) =>
    /\ \A p \in 1..Len(pages) : ~pages[p].available
    /\ numPages = config.maxPages[1]

\* the one handle has been released by its first owner and handed to the
\* oldest waiter, and another call is still queued
C23_Witness ==
  /\ config.maxPages = Given(1)
  /\ Len(pages) = 1
  /\ numPages = 1
  /\ queue # <<>>
  /\ relCount >= 1
  /\ \E t, u \in Tasks : tasks[t].status = "done" /\ tasks[u].status = "handed"

\* C24 (as claimed): with an integer maxPages, once main has left its crawl
\* steps (their sub-steps hold no crawl), by finishing or by an error, no
\* getPage call is queued or in flight and every handle of the pool is
\* marked available
C24_CrawlLeavesPoolIdle ==
  (/\ config.maxPages # Omitted
   /\ \A k \in 1..Len(config.steps) :
        /\ config.steps[k].action = "crawl"
        /\ \A n \in 1..Len(config.steps[k].subSteps) :
             config.steps[k].subSteps[n].action # "crawl"
   /\ tasks[Main].status \in {"closing", "done", "failed"}
   /\ tasks[Main].failedAt # "nav") =>
    /\ queue = <<>>
    /\ \A t \in Branches : tasks[t].status \notin {"queued", "newPage", "handed"}
    /\ \A p \in 1..Len(pages) : pages[p].available

\* every handle the pool can have exists and is held by a branch that
\* awaits the branches of its own crawl sub-step, and every branch that is
\* not done either awaits such branches or is queued in getPage
PoolDeadlocked ==
  /\ queue # <<>>
  /\ ~CanCreate(numPages, config.maxPages)
  /\ Creating(Pool) = 0
  /\ \A p \in 1..Len(pages) :
       \E t \in Branches : Holds(tasks[t], p) /\ tasks[t].status = "all"
  /\ \A t \in Branches : tasks[t].status \in {"all", "queued", "done"}
  /\ \A t \in Tasks :
       tasks[t].status = "all" =>
         \E c \in tasks[t].kids : tasks[c].status \in {"all", "queued"}

\* C25 (as claimed): with an integer maxPages, a crawl whose sub-steps hold
\* a crawl never reaches a state in which every handle is held by a branch
\* that waits for getPage calls of its own branches
C25_NoPoolDeadlock == config.maxPages # Omitted => ~PoolDeadlocked

\* C26 (as claimed): for a crawl that is the sub-step of a repeat, two
\* branches started for different (repeat iteration, link position) pairs
\* pass different indices to their sub-steps
C26_DistinctCrawlIndices ==
  (Len(config.steps) = 1 /\ config.steps[1].action = "repeat") =>
    \A t, u \in Branches :
      t # u => tasks[t].stack[1].i # tasks[u].stack[1].i

====
